---------------------------- MODULE Spec2Model ----------------------------
(***************************************************************************)
(* The CDN proxy endpoint of InstaLoaderWeb (src/downloader/views.py):     *)
(* the host allowlist guard _host_allowed and the view proxy(), one        *)
(* request at a time from its arrival to its terminal response.            *)
(*                                                                         *)
(* Text that the code parses (the target URL, the query parameters) is a   *)
(* sequence of one-character strings, so that urlsplit, str.lower, the     *)
(* substring test and os.path.basename are computed character by           *)
(* character.  Header values and body chunks, which the code only copies,  *)
(* are opaque strings.                                                     *)
(***************************************************************************)
EXTENDS Integers, Sequences, FiniteSets, TLC

(***************************************************************************)
(* Bounds of the model.                                                    *)
(***************************************************************************)
\* redirect hops the upstream may answer with in one requests.get call
MaxHops == 1
\* headers of one upstream response
MaxUpHeaders == 2
\* chunks of one upstream body
MaxChunks == 2

(***************************************************************************)
(* Strings.                                                                *)
(***************************************************************************)
EMPTY == <<>>

UPPERCASE == <<"A", "B", "C", "D", "E", "F", "G", "H", "I", "J", "K", "L", "M",
               "N", "O", "P", "Q", "R", "S", "T", "U", "V", "W", "X", "Y", "Z">>

LOWERCASE == <<"a", "b", "c", "d", "e", "f", "g", "h", "i", "j", "k", "l", "m",
               "n", "o", "p", "q", "r", "s", "t", "u", "v", "w", "x", "y", "z">>

\* F(v), with v evaluated once before F reads it
apply(F(_), v) == CHOOSE y \in {F(x) : x \in {v}} : TRUE

\* str.lower()
lower(s) ==
    [i \in DOMAIN s |->
        IF \E k \in DOMAIN UPPERCASE : UPPERCASE[k] = s[i]
        THEN LOWERCASE[CHOOSE k \in DOMAIN UPPERCASE : UPPERCASE[k] = s[i]]
        ELSE s[i]]

\* str.find(c): the first index of character c in s, 0 when there is none
find(s, c) ==
    IF \E i \in DOMAIN s : s[i] = c
    THEN CHOOSE i \in DOMAIN s : s[i] = c /\ \A j \in 1..(i - 1) : s[j] # c
    ELSE 0

\* str.rfind(c): the last index of character c in s, 0 when there is none
rfind(s, c) ==
    IF \E i \in DOMAIN s : s[i] = c
    THEN CHOOSE i \in DOMAIN s : s[i] = c /\ \A j \in (i + 1)..Len(s) : s[j] # c
    ELSE 0

\* s[:i-1] and s[i+1:] around the 1-based index i
before(s, i) == SubSeq(s, 1, i - 1)
after(s, i) == SubSeq(s, i + 1, Len(s))

\* s.partition(c)[0]: s up to the first c, all of s when there is none
partition_head(s, c) == IF find(s, c) > 0 THEN before(s, find(s, c)) ELSE s

\* s.rpartition(c)[2]: s after the last c, all of s when there is none
rpartition_tail(s, c) == after(s, rfind(s, c))

\* sub in s
contains(sub, s) ==
    \E i \in 0..(Len(s) - Len(sub)) : SubSeq(s, i + 1, i + Len(sub)) = sub

\* s.endswith(sub)
endswith(s, sub) ==
    /\ Len(sub) <= Len(s)
    /\ SubSeq(s, Len(s) - Len(sub) + 1, Len(s)) = sub

(***************************************************************************)
(* urllib.parse.urlsplit, as _host_allowed and proxy() use it: the netloc, *)
(* the hostname and the path of a URL.                                     *)
(***************************************************************************)
DIGITS_AND_SIGNS == {"0", "1", "2", "3", "4", "5", "6", "7", "8", "9", "+", "-", "."}

LETTERS == {LOWERCASE[k] : k \in DOMAIN LOWERCASE} \cup {UPPERCASE[k] : k \in DOMAIN UPPERCASE}

SCHEME_CHARS == LETTERS \cup DIGITS_AND_SIGNS

\* the rest of the URL once "<scheme>:" is split off
after_scheme(url) ==
    IF /\ find(url, ":") > 1
       /\ url[1] \in LETTERS
       /\ \A j \in 1..(find(url, ":") - 1) : url[j] \in SCHEME_CHARS
    THEN after(url, find(url, ":"))
    ELSE url

\* url[:2] == '//'
has_netloc(rest) == Len(rest) >= 2 /\ rest[1] = "/" /\ rest[2] = "/"

\* _splitnetloc: the end of the netloc, the first of "/", "?", "#" or the end
netloc_end(rest) ==
    IF \E i \in 3..Len(rest) : rest[i] \in {"/", "?", "#"}
    THEN CHOOSE i \in 3..Len(rest) :
            /\ rest[i] \in {"/", "?", "#"}
            /\ \A j \in 3..(i - 1) : rest[j] \notin {"/", "?", "#"}
    ELSE Len(rest) + 1

netloc_of(rest) == IF has_netloc(rest) THEN SubSeq(rest, 3, netloc_end(rest) - 1) ELSE EMPTY

\* SplitResult.netloc
netloc(url) == apply(netloc_of, after_scheme(url))

\* urlsplit raises ValueError("Invalid IPv6 URL") on an unmatched bracket
unmatched_bracket(n) ==
    \/ find(n, "[") > 0 /\ find(n, "]") = 0
    \/ find(n, "]") > 0 /\ find(n, "[") = 0

urlsplit_raises(url) == apply(unmatched_bracket, netloc(url))

\* what follows the netloc
after_netloc(rest) ==
    IF has_netloc(rest) THEN SubSeq(rest, netloc_end(rest), Len(rest)) ELSE rest

\* url.split('#', 1)[0], then url.split('?', 1)[0]
drop_fragment(s) == partition_head(s, "#")
drop_query(s) == partition_head(s, "?")

\* SplitResult.path: what follows the netloc, up to the first "#", then "?"
url_path(url) ==
    apply(drop_query, apply(drop_fragment, apply(after_netloc, after_scheme(url))))

\* _hostinfo: the netloc after the last "@"
hostinfo(n) == rpartition_tail(n, "@")

\* _hostinfo: what is between the brackets
bracketed(inside) == partition_head(inside, "]")

\* _hostinfo: the host part, within brackets or before the port
host_part(hi) ==
    IF find(hi, "[") > 0
    THEN apply(bracketed, after(hi, find(hi, "[")))
    ELSE partition_head(hi, ":")

\* SplitResult.hostname: after the last "@", before the port, lower-cased;
\* the empty string stands for None (the caller reads it with `or ""`)
hostname(url) ==
    apply(lower, apply(host_part, apply(hostinfo, netloc(url))))

(***************************************************************************)
(* The host allowlist guard.                                               *)
(***************************************************************************)
ALLOWED_CDN_SUBSTRINGS ==
    << <<".", "c", "d", "n", "i", "n", "s", "t", "a", "g", "r", "a", "m", ".", "c", "o", "m">>,
       <<".", "f", "b", "c", "d", "n", ".", "n", "e", "t">>,
       <<".", "f", "n", "a", ".", "f", "b", "c", "d", "n", ".", "n", "e", "t">> >>

\* any(sub in host for sub in ALLOWED_CDN_SUBSTRINGS), a plausible slip: all(...)
all_in(host) ==
    \A k \in DOMAIN ALLOWED_CDN_SUBSTRINGS : contains(ALLOWED_CDN_SUBSTRINGS[k], host)

\* any(sub in host for sub in ALLOWED_CDN_SUBSTRINGS)
any_in(host) ==
    \E k \in DOMAIN ALLOWED_CDN_SUBSTRINGS : contains(ALLOWED_CDN_SUBSTRINGS[k], host)

_host_allowed_all(url) ==
    IF urlsplit_raises(url) THEN FALSE
    ELSE apply(all_in, apply(lower, hostname(url)))

_host_allowed(url) ==
    IF urlsplit_raises(url) THEN FALSE
    ELSE apply(any_in, apply(lower, hostname(url)))

(***************************************************************************)
(* Optional values: None is the empty sequence, a value v is <<v>>.        *)
(***************************************************************************)
None == <<>>
Some(v) == <<v>>

\* dict.get(k) of a QueryDict or of a header mapping
get(d, k) == IF k \in DOMAIN d THEN Some(d[k]) ELSE None

\* Python truthiness of an optional string: neither None nor ""
truthy(o) == o # None /\ o[1] # EMPTY

(***************************************************************************)
(* proxy(): the filename and the content type (lines 291-293).             *)
(***************************************************************************)
FILE == <<"f", "i", "l", "e">>
EXT_JPG == <<".", "j", "p", "g">>
EXT_MP4 == <<".", "m", "p", "4">>
EXT_COM == <<".", "c", "o", "m">>

\* os.path.basename: what follows the last "/"
basename(p) == rpartition_tail(p, "/")

\* posixpath.splitext(name)[1]: from the last ".", unless only dots precede it
splitext(name) ==
    IF rfind(name, ".") > 1 /\ \E j \in 1..(rfind(name, ".") - 1) : name[j] # "."
    THEN SubSeq(name, rfind(name, "."), Len(name))
    ELSE EMPTY

\* the type of an extension, for the extensions of the modelled URLs; "" stands
\* for None
type_of_ext(ext) ==
    IF ext = EXT_JPG THEN "image/jpeg"
    ELSE IF ext = EXT_MP4 THEN "video/mp4"
    ELSE IF ext = EXT_COM THEN "application/x-msdos-program"
    ELSE ""

\* mimetypes.guess_type(name)[0]
guess_type(name) == apply(type_of_ext, apply(lower, splitext(name)))

or_file(b) == IF b = EMPTY THEN FILE ELSE b

\* filename = os.path.basename(path) or "file"
filename_of(url) == apply(or_file, apply(basename, url_path(url)))

or_octet_stream(t) == IF t # "" THEN t ELSE "application/octet-stream"

\* r.headers.get("Content-Type") or guess_type(filename)[0] or "application/octet-stream"
ctype_of(url, up) ==
    IF "Content-Type" \in DOMAIN up.headers /\ up.headers["Content-Type"] # ""
    THEN up.headers["Content-Type"]
    ELSE apply(or_octet_stream, apply(guess_type, filename_of(url)))

\* the headers proxy() passes through (line 298)
PASS_HEADERS == <<"Content-Length", "Content-Range", "Accept-Ranges",
                  "ETag", "Last-Modified", "Cache-Control">>

\* f'attachment; filename="{filename}"'
content_disposition(name) == <<"attachment; filename=\"">> \o name \o <<"\"">>

DOWNLOAD_ON == <<"1">>

(***************************************************************************)
(* Inputs: the target URLs a client may send, the requests and what the    *)
(* upstream may answer.                                                    *)
(***************************************************************************)
\* URLs put together from parts, for the guard taken alone
URL_SCHEMES ==
    {<<"h", "t", "t", "p", "s", ":", "/", "/">>,
     <<>>}
URL_BEFORE_HOST ==
    {<<>>,
     <<"x", ".", "f", "b", "c", "d", "n", ".", "n", "e", "t", "@">>,
     <<"[">>}
HOST_PREFIXES ==
    {<<>>,
     <<"x", ".">>,
     <<"X", ".">>,
     <<"x">>}
HOST_CORES ==
    {<<"c", "d", "n", "i", "n", "s", "t", "a", "g", "r", "a", "m", ".", "c", "o", "m">>,
     <<"f", "b", "c", "d", "n", ".", "n", "e", "t">>,
     <<"f", "n", "a", ".", "f", "b", "c", "d", "n", ".", "n", "e", "t">>,
     <<"e", "x", "a", "m", "p", "l", "e", ".", "c", "o", "m">>,
     <<"F", "B", "C", "D", "N", ".", "N", "E", "T">>}
HOST_SUFFIXES ==
    {<<>>,
     <<".", "e", "v", "i", "l", ".", "c", "o", "m">>,
     <<"w", "o", "r", "k">>}
URL_PORTS ==
    {<<>>,
     <<":", "4", "4", "3">>}
URL_PATHS ==
    {<<>>,
     <<"/", "v", "/", "a", "b", "c", ".", "j", "p", "g">>,
     <<"/", ".", "f", "b", "c", "d", "n", ".", "n", "e", "t">>}

GUARD_URLS ==
    {s \o b \o hp \o hc \o hs \o po \o pa :
        s \in URL_SCHEMES, b \in URL_BEFORE_HOST, hp \in HOST_PREFIXES, hc \in HOST_CORES,
        hs \in HOST_SUFFIXES, po \in URL_PORTS, pa \in URL_PATHS}

\* the target URLs of the requests followed to their end
URL_IMAGE == <<"h", "t", "t", "p", "s", ":", "/", "/", "s", "c", "o", "n", "t", "e", "n", "t", ".", "c", "d", "n", "i", "n", "s", "t", "a", "g", "r", "a", "m", ".", "c", "o", "m", "/", "v", "/", "a", "b", "c", ".", "j", "p", "g">>
URL_VIDEO == <<"h", "t", "t", "p", "s", ":", "/", "/", "X", ".", "F", "B", "C", "D", "N", ".", "N", "E", "T", ":", "4", "4", "3", "/", "v", "/", "c", "l", "i", "p", ".", "M", "P", "4", "?", "x", "=", "1">>
URL_DIR == <<"h", "t", "t", "p", "s", ":", "/", "/", "x", ".", "f", "n", "a", ".", "f", "b", "c", "d", "n", ".", "n", "e", "t", "/", "v", "/">>
URL_EVIL == <<"h", "t", "t", "p", "s", ":", "/", "/", "e", "v", "i", "l", ".", "e", "x", "a", "m", "p", "l", "e", ".", "c", "o", "m", "/", "x", ".", "j", "p", "g">>
URL_APEX == <<"h", "t", "t", "p", "s", ":", "/", "/", "f", "b", "c", "d", "n", ".", "n", "e", "t", "/", "x", ".", "j", "p", "g">>
URL_BRACKET == <<"h", "t", "t", "p", "s", ":", "/", "/", "[", "x", ".", "f", "b", "c", "d", "n", ".", "n", "e", "t", "/">>
URL_USERINFO == <<"h", "t", "t", "p", "s", ":", "/", "/", "x", ".", "f", "b", "c", "d", "n", ".", "n", "e", "t", "@", "e", "v", "i", "l", ".", "c", "o", "m", "/", "a">>

TARGET_URLS == {URL_IMAGE, URL_VIDEO, URL_DIR,
                URL_EVIL, URL_APEX, URL_BRACKET, URL_USERINFO}

\* where an upstream may redirect to
REDIRECT_URLS == {URL_EVIL}

\* a mapping with the keys present among <<k1, o1>>, <<k2, o2>>, o an optional value
mapping(k1, o1, k2, o2) ==
    [k \in {x \in {k1} : o1 # None} \cup {x \in {k2} : o2 # None} |->
        IF k = k1 THEN o1[1] ELSE o2[1]]

\* request[1].GET: u absent, empty or a URL; download absent, "0" or "1"
QUERIES ==
    {mapping("u", u, "download", d) :
        u \in {None, Some(EMPTY)} \cup {Some(x) : x \in TARGET_URLS},
        d \in {None, Some(<<"0">>), Some(DOWNLOAD_ON)}}

\* request[1].headers: with or without Range, with or without a Cookie
CLIENT_HEADERS ==
    {mapping("Range", ra, "Cookie", co) :
        ra \in {None, Some("bytes=0-99")}, co \in {None, Some("sessionid=secret")}}

REQUESTS == [GET : QUERIES, headers : CLIENT_HEADERS]

\* what an upstream may send: the status, some headers, a finite body
UP_STATUSES == {200, 206, 404}

UP_HEADER_VALUES ==
    [h \in {"Content-Type", "Content-Length", "ETag", "Set-Cookie", "X-Internal-Debug"} |->
        CASE h = "Content-Type" -> {"image/png"}
          [] h = "Content-Length" -> {"100"}
          [] h = "ETag" -> {"W/abc"}
          [] h = "Set-Cookie" -> {"cdn=1"}
          [] OTHER -> {"edge-17"}]

UP_HEADERS ==
    UNION {{f \in [S -> UNION {UP_HEADER_VALUES[h] : h \in S}] :
                \A h \in S : f[h] \in UP_HEADER_VALUES[h]} :
           S \in {T \in SUBSET DOMAIN UP_HEADER_VALUES : Cardinality(T) <= MaxUpHeaders}}

CHUNKS == <<"chunk1", "chunk2", "chunk3", "chunk4", "chunk5", "chunk6">>

UP_BODIES == {SubSeq(CHUNKS, 1, n) : n \in 0..MaxChunks}

UP_RESPONSES == [status : UP_STATUSES, headers : UP_HEADERS, body : UP_BODIES]

\* what requests.get may raise
FETCH_ERRORS == {"ConnectionError", "ConnectTimeout"}

STATUS_TEXT == [n \in UP_STATUSES |-> CASE n = 200 -> "200" [] n = 206 -> "206" [] OTHER -> "404"]

(***************************************************************************)
(* The state of one worker serving proxy() requests.                       *)
(***************************************************************************)
VARIABLES
    pc,         \* where the request is: Received, Validating, Rejected, Fetching,
                \* FetchFailed, Streaming (r is at hand) or Completed
    request,    \* the HttpRequest: GET and headers
    src,        \* the local src, request[1].GET.get("u")
    guard,      \* what _host_allowed answered for this request, if it was asked
    headers,    \* the local headers, the dict handed to requests.get
    fetchCalls, \* the calls of requests.get made for this request
    wire,       \* the GETs sent upstream for this request: host and headers, in order
    r,          \* the upstream response requests.get returned
    rOpen,      \* whether r still holds its upstream connection
    resp,       \* the response the view returned
    delivered,  \* the chunks of r streamed to the client so far
    path        \* the values pc has taken for this request, in order

vars == <<pc, request, src, guard, headers, fetchCalls, wire, r, rOpen, resp, delivered, path>>

TERMINAL == {"Rejected", "FetchFailed", "Completed"}

\* django.http.HttpResponse(content, status=status)
HttpResponse(content, status) ==
    [status |-> status, streaming |-> FALSE, content |-> content,
     headers |-> [h \in {"Content-Type"} |-> "text/html; charset=utf-8"]]

\* django.http.HttpResponseBadRequest(content)
HttpResponseBadRequest(content) == HttpResponse(content, 400)

\* lines 279-281: a plausible slip, every client header is forwarded
range_headers_all(client) == client

\* lines 279-281: Range, and nothing else, is forwarded
range_headers(client) ==
    [h \in {"Range"} \cap DOMAIN client |-> client[h]]

\* lines 291-306: a plausible slip, any download parameter forces the download
streaming_response_truthy(url, download, up) ==
    LET pass   == {PASS_HEADERS[k] : k \in DOMAIN PASS_HEADERS} \cap DOMAIN up.headers
        attach == truthy(download)
    IN  [status |-> up.status, streaming |-> TRUE, content |-> EMPTY,
         headers |->
            [h \in {"Content-Type"} \cup pass \cup {x \in {"Content-Disposition"} : attach} |->
                IF h = "Content-Disposition" THEN content_disposition(filename_of(url))
                ELSE IF h \in pass THEN up.headers[h]
                ELSE ctype_of(url, up)]]

\* lines 291-306: a plausible slip, every upstream header is passed through
streaming_response_all(url, download, up) ==
    LET pass   == DOMAIN up.headers \ {"Content-Type"}
        attach == download = Some(DOWNLOAD_ON)
    IN  [status |-> up.status, streaming |-> TRUE, content |-> EMPTY,
         headers |->
            [h \in {"Content-Type"} \cup pass \cup {x \in {"Content-Disposition"} : attach} |->
                IF h = "Content-Disposition" THEN content_disposition(filename_of(url))
                ELSE IF h \in pass THEN up.headers[h]
                ELSE ctype_of(url, up)]]

\* lines 291-306: the StreamingHttpResponse built from r
streaming_response(url, download, up) ==
    LET pass   == {PASS_HEADERS[k] : k \in DOMAIN PASS_HEADERS} \cap DOMAIN up.headers
        attach == download = Some(DOWNLOAD_ON)
    IN  [status |-> up.status, streaming |-> TRUE, content |-> EMPTY,
         headers |->
            [h \in {"Content-Type"} \cup pass \cup {x \in {"Content-Disposition"} : attach} |->
                IF h = "Content-Disposition" THEN content_disposition(filename_of(url))
                ELSE IF h \in pass THEN up.headers[h]
                ELSE ctype_of(url, up)]]

\* the worker as it is constructed, and between two requests
Idle ==
    /\ pc = "Idle"
    /\ request = None
    /\ src = None
    /\ guard = "unchecked"
    /\ headers = None
    /\ fetchCalls = 0
    /\ wire = <<>>
    /\ r = None
    /\ rOpen = FALSE
    /\ resp = None
    /\ delivered = <<>>
    /\ path = <<>>

Init == Idle

\* a request arrives at the idle worker
Receive(req) ==
    /\ pc = "Idle"
    /\ request' = Some(req)
    /\ pc' = "Received"
    /\ path' = <<"Received">>
    /\ UNCHANGED <<src, guard, headers, fetchCalls, wire, r, rOpen, resp, delivered>>

\* the response is handed back and the view's locals are gone
Finish ==
    /\ pc \in TERMINAL
    /\ pc' = "Idle"
    /\ request' = None
    /\ src' = None
    /\ guard' = "unchecked"
    /\ headers' = None
    /\ fetchCalls' = 0
    /\ wire' = <<>>
    /\ r' = None
    /\ rOpen' = FALSE
    /\ resp' = None
    /\ delivered' = <<>>
    /\ path' = <<>>

\* line 272
ReadTarget ==
    /\ pc = "Received"
    /\ src' = get(request[1].GET, "u")
    /\ pc' = "Validating"
    /\ path' = Append(path, "Validating")
    /\ UNCHANGED <<request, guard, headers, fetchCalls, wire, r, rOpen, resp, delivered>>

\* lines 273-281, a plausible slip: the guard is not asked
Validate_unguarded ==
    /\ pc = "Validating"
    /\ IF ~truthy(src)
       THEN /\ resp' = Some(HttpResponseBadRequest(<<"Missing url">>))
            /\ pc' = "Rejected"
            /\ UNCHANGED <<guard, headers>>
       ELSE /\ headers' = Some(range_headers(request[1].headers))
            /\ pc' = "Fetching"
            /\ UNCHANGED <<guard, resp>>
    /\ path' = Append(path, pc')
    /\ UNCHANGED <<request, src, fetchCalls, wire, r, rOpen, delivered>>

\* lines 273-281: the two checks, then the headers for the fetch
Validate ==
    /\ pc = "Validating"
    /\ IF ~truthy(src)
       THEN /\ resp' = Some(HttpResponseBadRequest(<<"Missing url">>))
            /\ pc' = "Rejected"
            /\ UNCHANGED <<guard, headers>>
       ELSE IF ~_host_allowed(src[1])
       THEN /\ guard' = "denied"
            /\ resp' = Some(HttpResponseBadRequest(<<"Host not allowed">>))
            /\ pc' = "Rejected"
            /\ UNCHANGED headers
       ELSE /\ guard' = "allowed"
            /\ headers' = Some(range_headers(request[1].headers))
            /\ pc' = "Fetching"
            /\ UNCHANGED resp
    /\ path' = Append(path, pc')
    /\ UNCHANGED <<request, src, fetchCalls, wire, r, rOpen, delivered>>

\* line 284: requests.get is called and sends the GET to the host of src
Connect ==
    /\ pc = "Fetching"
    /\ fetchCalls = 0
    /\ fetchCalls' = 1
    /\ wire' = <<[host |-> hostname(src[1]), headers |-> headers[1]]>>
    /\ UNCHANGED <<pc, request, src, guard, headers, r, rOpen, resp, delivered, path>>

\* line 284: the upstream answers with a redirect and requests.get, called with
\* its default allow_redirects, sends the GET again to where it points
FollowRedirect(url) ==
    /\ pc = "Fetching"
    /\ fetchCalls = 1
    /\ Len(wire) <= MaxHops
    /\ wire' = Append(wire, [host |-> hostname(url), headers |-> headers[1]])
    /\ UNCHANGED <<pc, request, src, guard, headers, fetchCalls, r, rOpen, resp, delivered, path>>

\* lines 285-286, a plausible slip: a failed fetch is tried again
FetchRaise_retry(e) ==
    /\ pc = "Fetching"
    /\ fetchCalls = 1
    /\ fetchCalls' = 2
    /\ resp' = Some(HttpResponseBadRequest(<<"Fetch failed: ", e>>))
    /\ pc' = "FetchFailed"
    /\ path' = Append(path, "FetchFailed")
    /\ UNCHANGED <<request, src, guard, headers, wire, r, rOpen, delivered>>

\* lines 285-286: requests.get raises (connection, DNS, timeout)
FetchRaise(e) ==
    /\ pc = "Fetching"
    /\ fetchCalls = 1
    /\ resp' = Some(HttpResponseBadRequest(<<"Fetch failed: ", e>>))
    /\ pc' = "FetchFailed"
    /\ path' = Append(path, "FetchFailed")
    /\ UNCHANGED <<request, src, guard, headers, fetchCalls, wire, r, rOpen, delivered>>

\* line 284: requests.get returns r, stream=True: the body is unread and r
\* holds the connection
FetchReturn(up) ==
    /\ pc = "Fetching"
    /\ fetchCalls = 1
    /\ r' = Some(up)
    /\ rOpen' = TRUE
    /\ pc' = "Streaming"
    /\ path' = Append(path, "Streaming")
    /\ UNCHANGED <<request, src, guard, headers, fetchCalls, wire, resp, delivered>>

\* lines 288-289, a plausible slip: the upstream status is answered as a 400
RelayError_bad_request ==
    /\ pc = "Streaming"
    /\ resp = None
    /\ r[1].status \notin {200, 206}
    /\ resp' = Some(HttpResponseBadRequest(<<"Upstream returned ", STATUS_TEXT[r[1].status]>>))
    /\ pc' = "Completed"
    /\ path' = Append(path, "Completed")
    /\ UNCHANGED <<request, src, guard, headers, fetchCalls, wire, r, rOpen, delivered>>

\* lines 288-289: another status than 200 or 206; r is neither read nor closed
RelayError ==
    /\ pc = "Streaming"
    /\ resp = None
    /\ r[1].status \notin {200, 206}
    /\ resp' = Some(HttpResponse(<<"Upstream returned ", STATUS_TEXT[r[1].status]>>, r[1].status))
    /\ pc' = "Completed"
    /\ path' = Append(path, "Completed")
    /\ UNCHANGED <<request, src, guard, headers, fetchCalls, wire, r, rOpen, delivered>>

\* lines 291-306: the view returns the StreamingHttpResponse over r.iter_content
RelayStart ==
    /\ pc = "Streaming"
    /\ resp = None
    /\ r[1].status \in {200, 206}
    /\ resp' = Some(streaming_response(src[1], get(request[1].GET, "download"), r[1]))
    /\ UNCHANGED <<pc, request, src, guard, headers, fetchCalls, wire, r, rOpen, delivered, path>>

\* line 295: the server takes the next chunk of r.iter_content(8192)
StreamChunk ==
    /\ pc = "Streaming"
    /\ resp # None
    /\ Len(delivered) < Len(r[1].body)
    /\ delivered' = Append(delivered, r[1].body[Len(delivered) + 1])
    /\ UNCHANGED <<pc, request, src, guard, headers, fetchCalls, wire, r, rOpen, resp, path>>

\* line 295: r.iter_content is exhausted; the read to the end releases the connection
StreamEnd ==
    /\ pc = "Streaming"
    /\ resp # None
    /\ Len(delivered) = Len(r[1].body)
    /\ rOpen' = FALSE
    /\ pc' = "Completed"
    /\ path' = Append(path, "Completed")
    /\ UNCHANGED <<request, src, guard, headers, fetchCalls, wire, r, resp, delivered>>

\* line 295: the upstream drops the connection, r.iter_content raises
UpstreamDrop ==
    /\ pc = "Streaming"
    /\ resp # None
    /\ Len(delivered) < Len(r[1].body)
    /\ rOpen' = FALSE
    /\ pc' = "Completed"
    /\ path' = Append(path, "Completed")
    /\ UNCHANGED <<request, src, guard, headers, fetchCalls, wire, r, resp, delivered>>

\* line 295: the client goes away, the server closes the response and with it
\* the generator r.iter_content; nothing in proxy() closes r, and whether the
\* suspended generator lets go of the connection is left to the library
ClientDisconnect ==
    /\ pc = "Streaming"
    /\ resp # None
    /\ rOpen' \in BOOLEAN
    /\ pc' = "Completed"
    /\ path' = Append(path, "Completed")
    /\ UNCHANGED <<request, src, guard, headers, fetchCalls, wire, r, resp, delivered>>

Next ==
    \/ \E req \in REQUESTS : Receive(req)
    \/ Finish
    \/ ReadTarget
    \/ Validate
    \/ Connect
    \/ \E url \in REDIRECT_URLS : FollowRedirect(url)
    \/ \E e \in FETCH_ERRORS : FetchRaise(e)
    \/ \E up \in UP_RESPONSES : FetchReturn(up)
    \/ RelayError
    \/ RelayStart
    \/ StreamChunk
    \/ StreamEnd
    \/ UpstreamDrop
    \/ ClientDisconnect

Spec == Init /\ [][Next]_vars

\* every step of a request is taken in the end: the worker thread runs, the
\* fetch is bounded by its timeout and the upstream body is finite
FairSpec == Spec /\ WF_vars(Next)

(***************************************************************************)
(* The guard taken alone: a URL arrives, is read and is validated.         *)
(***************************************************************************)
GUARD_REQUESTS ==
    {[GET |-> mapping("u", Some(url), "download", None),
      headers |-> mapping("Range", None, "Cookie", None)] : url \in GUARD_URLS}

GuardNext ==
    \/ \E req \in GUARD_REQUESTS : Receive(req)
    \/ ReadTarget
    \/ Validate

GuardSpec == Init /\ [][GuardNext]_vars


(***************************************************************************)
(* What the claims speak of.                                               *)
(***************************************************************************)
\* the request has a 'u' parameter
HasTarget == request # None /\ "u" \in DOMAIN request[1].GET

Target == request[1].GET["u"]

\* the body the client sees: the text of a plain response, the chunks
\* streamed so far of a streaming one
ClientBody == IF resp[1].streaming THEN delivered ELSE resp[1].content

\* the hostname ends with one of the configured entries
SuffixMatch(host) ==
    \E k \in DOMAIN ALLOWED_CDN_SUBSTRINGS : endswith(host, ALLOWED_CDN_SUBSTRINGS[k])

\* the domain a configured entry names: the entry without its leading dot
CdnDomain(k) == Tail(ALLOWED_CDN_SUBSTRINGS[k])

HostNotAllowed == Some(HttpResponseBadRequest(<<"Host not allowed">>))

(***************************************************************************)
(* C1                                                                      *)
(***************************************************************************)
\* C1, as stated: whenever 'u' is present and _host_allowed(u) is false, nothing
\* is fetched and the response is 400 'Host not allowed'.
C1_AsStated ==
    (HasTarget /\ ~_host_allowed(Target)) =>
        /\ fetchCalls = 0 /\ wire = <<>> /\ r = None
        /\ pc \in TERMINAL => pc = "Rejected" /\ resp = HostNotAllowed

\* C1, amended: whenever 'u' is present and not empty and _host_allowed(u) is
\* false (a URL that does not parse included), nothing is ever fetched and the
\* response is 400 'Host not allowed'; a request is fetched only after the guard
\* answered true for its own 'u', and no request starts with an answer of the
\* guard at hand.  (An empty 'u' is answered 400 'Missing url'.)  The first
\* conjunct asks _host_allowed again in every state; with it, a fetched request
\* whose 'u' is present and not empty has a 'u' that _host_allowed accepts.
C1_GuardBeforeFetch ==
    /\ (HasTarget /\ Target # EMPTY /\ ~_host_allowed(Target)) =>
        /\ fetchCalls = 0 /\ wire = <<>> /\ r = None
        /\ pc \notin {"Fetching", "FetchFailed", "Streaming", "Completed"}
        /\ pc \in TERMINAL => pc = "Rejected" /\ resp = HostNotAllowed
    /\ (fetchCalls > 0 \/ wire # <<>> \/ pc \in {"Fetching", "FetchFailed", "Streaming", "Completed"}) =>
        /\ guard = "allowed"
        /\ HasTarget /\ Target # EMPTY
    /\ pc \in {"Idle", "Received", "Validating"} => guard = "unchecked"
    /\ (HasTarget /\ Target = EMPTY /\ pc \in TERMINAL) =>
        resp = Some(HttpResponseBadRequest(<<"Missing url">>))

\* a URL that does not parse was rejected by the guard
C1_Witness ==
    /\ pc = "Rejected"
    /\ guard = "denied"
    /\ urlsplit_raises(Target)
    /\ resp = HostNotAllowed

C3_AsStated ==
    (guard # "unchecked" /\ ~urlsplit_raises(Target)) =>
        \A k \in DOMAIN ALLOWED_CDN_SUBSTRINGS :
            (hostname(Target) = CdnDomain(k) \/ endswith(hostname(Target), ALLOWED_CDN_SUBSTRINGS[k]))
                => guard = "allowed"

\* C3, amended: a URL whose hostname, in any letter case, is a subdomain of a
\* configured CDN domain (ends with "." and the domain) is allowed; the
\* hostnames cdninstagram.com and fbcdn.net themselves are rejected.
C3_SubdomainsAllowed ==
    (guard # "unchecked" /\ ~urlsplit_raises(Target)) =>
        /\ \A k \in DOMAIN ALLOWED_CDN_SUBSTRINGS :
              endswith(hostname(Target), ALLOWED_CDN_SUBSTRINGS[k]) => guard = "allowed"
        /\ hostname(Target) \in {CdnDomain(1), CdnDomain(2)} => guard = "denied"

\* a subdomain written in capitals was allowed
C3_Witness ==
    /\ guard = "allowed"
    /\ Target # lower(Target)
    /\ hostname(Target) = <<"x">> \o ALLOWED_CDN_SUBSTRINGS[2]

(***************************************************************************)
(* C4                                                                      *)
(***************************************************************************)
\* C4: the guard allows a hostname only if it ends with a configured CDN
\* domain, and nothing else reaches the fetch.
C4_SuffixOnly ==
    (guard = "allowed" \/ pc = "Fetching") => SuffixMatch(hostname(Target))

(***************************************************************************)
(* C5                                                                      *)
(***************************************************************************)
\* C5: the headers of a streamed response are the upstream's Content-Length,
\* Content-Range, Accept-Ranges, ETag, Last-Modified and Cache-Control, those
\* it sent and with its values, and the Content-Type; no other upstream header
\* is on it and none is made up.
C5_HeaderWhitelist ==
    (resp # None /\ resp[1].streaming) =>
        LET up == r[1].headers
            H  == resp[1].headers
            WL == {"Content-Length", "Content-Range", "Accept-Ranges",
                   "ETag", "Last-Modified", "Cache-Control"}
        IN  /\ DOMAIN H \subseteq WL \cup {"Content-Type", "Content-Disposition"}
            /\ \A h \in WL : h \in DOMAIN H <=> h \in DOMAIN up
            /\ \A h \in WL \cap DOMAIN H : H[h] = up[h]
            /\ "Content-Type" \in DOMAIN H
            /\ "Content-Type" \in DOMAIN up => H["Content-Type"] = up["Content-Type"]
            /\ "Content-Type" \notin DOMAIN up =>
                  H["Content-Type"] \in {"image/jpeg", "video/mp4", "application/octet-stream"}

\* an upstream that sent Set-Cookie and ETag was streamed
C5_Witness ==
    /\ resp # None /\ resp[1].streaming
    /\ {"Set-Cookie", "ETag"} \subseteq DOMAIN r[1].headers
    /\ "ETag" \in DOMAIN resp[1].headers

(***************************************************************************)
(* C6                                                                      *)
(***************************************************************************)
\* C6: a streamed response has Content-Disposition 'attachment; filename="<name>"',
\* <name> the basename of the target's path or "file", exactly when download is
\* "1"; with another download parameter, or none, the response to the same target
\* and upstream answer is the same but for that header.
C6_DispositionToggle ==
    (resp # None /\ resp[1].streaming) =>
        LET H    == resp[1].headers
            d    == get(request[1].GET, "download")
            base == basename(url_path(Target))
            name == IF base = EMPTY THEN <<"f", "i", "l", "e">> ELSE base
            rest(x) == [x EXCEPT !.headers = [h \in DOMAIN x.headers \ {"Content-Disposition"} |-> x.headers[h]]]
        IN  /\ d = Some(<<"1">>) =>
                /\ "Content-Disposition" \in DOMAIN H
                /\ H["Content-Disposition"] = <<"attachment; filename=\"">> \o name \o <<"\"">>
            /\ d # Some(<<"1">>) => "Content-Disposition" \notin DOMAIN H
            /\ \A d2 \in {None, Some(<<"0">>), Some(<<"1">>)} :
                  rest(streaming_response(Target, d2, r[1])) = rest(resp[1])

\* a download of a target whose path ends in "/" was streamed as "file"
C6_Witness ==
    /\ resp # None /\ resp[1].streaming
    /\ get(request[1].GET, "download") = Some(<<"1">>)
    /\ basename(url_path(Target)) = EMPTY
    /\ resp[1].headers["Content-Disposition"] = <<"attachment; filename=\"", "f", "i", "l", "e", "\"">>

(***************************************************************************)
(* C7                                                                      *)
(***************************************************************************)
\* C7: every GET sent upstream carries the client's Range header with its value
\* when the client sent one, and no header otherwise; no other client header is
\* ever sent upstream.
C7_RangeOnly ==
    \A i \in DOMAIN wire :
        LET client == request[1].headers
            sent   == wire[i].headers
        IN  /\ DOMAIN sent = {"Range"} \cap DOMAIN client
            /\ \A h \in DOMAIN sent : sent[h] = client[h]

\* a request with a Range and a Cookie was fetched
C7_Witness ==
    /\ wire # <<>>
    /\ {"Range", "Cookie"} \subseteq DOMAIN request[1].headers
    /\ wire[1].headers["Range"] = "bytes=0-99"

(***************************************************************************)
(* C8                                                                      *)
(***************************************************************************)
\* the ways of a request through proxy()
LIFECYCLES ==
    {<<"Received", "Validating", "Rejected">>,
     <<"Received", "Validating", "Fetching", "FetchFailed">>,
     <<"Received", "Validating", "Fetching", "Streaming", "Completed">>}

\* where a request is and has been, and what it ended with
Lifecycle ==
    /\ pc = "Idle" <=> path = <<>>
    /\ path # <<>> =>
        /\ pc = path[Len(path)]
        /\ \E p \in LIFECYCLES : Len(path) <= Len(p) /\ path = SubSeq(p, 1, Len(path))
    /\ fetchCalls <= 1
    /\ pc \in {"Received", "Validating"} => fetchCalls = 0 /\ wire = <<>>
    /\ pc \in TERMINAL <=> (resp # None /\ pc # "Streaming")
    /\ pc = "Rejected" =>
        /\ resp[1].status = 400
        /\ fetchCalls = 0 /\ wire = <<>> /\ r = None
        /\ ~HasTarget => ClientBody = <<"Missing url">>
        /\ guard = "denied" => ClientBody = <<"Host not allowed">>
        /\ guard = "denied" \/ ~HasTarget \/ Target = EMPTY
    /\ pc = "FetchFailed" =>
        /\ resp[1].status = 400
        /\ fetchCalls = 1 /\ r = None
        /\ \E e \in FETCH_ERRORS : ClientBody = <<"Fetch failed: ", e>>
    /\ pc = "Completed" =>
        /\ fetchCalls = 1 /\ r # None
        /\ resp[1].status = r[1].status

\* C8: a request goes Received, Validating, then Rejected or Fetching, then
\* FetchFailed or Streaming, then Completed; Rejected is a 400 ('Missing url'
\* without 'u', 'Host not allowed' when the guard refuses) with no fetch,
\* FetchFailed a 400 after the one fetch raised, Completed has the upstream's
\* status; requests.get is called at most once, and every request received
\* ends in one of the three.
C8_Lifecycle ==
    /\ []Lifecycle
    /\ (pc = "Received") ~> (pc \in TERMINAL)

\* a request was streamed to its end
C8_Witness ==
    /\ pc = "Completed"
    /\ path = <<"Received", "Validating", "Fetching", "Streaming", "Completed">>
    /\ resp[1].status = 206
    /\ delivered = r[1].body /\ delivered # <<>>

(***************************************************************************)
(* C9                                                                      *)
(***************************************************************************)
\* C9: no request has ended while its upstream response still holds its
\* connection.
C9_ReleasedAtEnd == pc \in TERMINAL => ~rOpen

(***************************************************************************)
(* C10                                                                     *)
(***************************************************************************)
\* C10: every host a GET was sent to for a request, redirect hops included,
\* passes the guard.
C10_EveryHopAllowed ==
    \A i \in DOMAIN wire :
        \E k \in DOMAIN ALLOWED_CDN_SUBSTRINGS : contains(ALLOWED_CDN_SUBSTRINGS[k], wire[i].host)

=============================================================================
